---- MODULE Spec2Model ----
(***************************************************************************)
(* Model of the telegram-notifications relay: the process entry (main,     *)
(* run_cli_mode, run_server), the HTTP handlers (health, notify, send) and *)
(* the provider client (TelegramBot::send_message_advanced, get_me).       *)
(*                                                                         *)
(* Strings that are only compared are TLA+ strings.  Strings that are      *)
(* built by format! and searched with contains() are sequences of chunks   *)
(* (each chunk a literal piece or an interpolated value); the environment  *)
(* toggle is a sequence of characters so that to_lowercase() is computed.  *)
(***************************************************************************)
EXTENDS Integers, Sequences, FiniteSets, TLC

\* ------------------------------------------------------------- bounds ---
\* number of HTTP requests that can be in flight at the same time
MaxInFlight == 1
\* the handler invocations in flight at a time in the specification of the
\* running server
MaxConcurrent == 2

Slots == 1..MaxInFlight

\* ------------------------------------------------------ Option values ---
NoneStr == [some |-> FALSE, v |-> ""]
SomeStr(s) == [some |-> TRUE, v |-> s]
NoneInt == [some |-> FALSE, v |-> 0]
SomeInt(n) == [some |-> TRUE, v |-> n]
NoneBool == [some |-> FALSE, v |-> FALSE]
SomeBool(b) == [some |-> TRUE, v |-> b]

Range(s) == {s[i] : i \in 1..Len(s)}

\* text.contains(chunk) for chunked text
Contains(text, chunk) == chunk \in Range(text)

\* ------------------------------------------------- environment toggle ---
\* std::env::var(..): unset, or a string (here: its characters)
EnvUnset == [some |-> FALSE, v |-> <<>>]
EnvSet(chars) == [some |-> TRUE, v |-> chars]

EnvValues ==
    { EnvUnset,
      EnvSet(<<>>),
      EnvSet(<<"t", "r", "u", "e">>),
      EnvSet(<<"T", "r", "U", "E">>),
      EnvSet(<<"1">>) }

\* char::to_lowercase on the characters that occur in EnvValues
LowerChar(c) ==
    CASE c = "T" -> "t"
      [] c = "R" -> "r"
      [] c = "U" -> "u"
      [] c = "E" -> "e"
      [] OTHER -> c

ToLowercase(chars) == [i \in 1..Len(chars) |-> LowerChar(chars[i])]

UnwrapOrDefault(e) == IF e.some THEN e.v ELSE <<>>

\* mutant: the value is compared as it is
SkipValidationExact(e) == UnwrapOrDefault(e) = <<"t", "r", "u", "e">>

\* std::env::var("TELEGRAM_NOTIFICATIONS_SKIP_VALIDATION")
\*     .unwrap_or_default().to_lowercase() == "true"
SkipValidation(e) == ToLowercase(UnwrapOrDefault(e)) = <<"t", "r", "u", "e">>

\* ------------------------------------------------------------- texts ---
TELEGRAM_API_BASE == "https://api.telegram.org/bot"

\* the i32 / i64 payload of a number, as Display prints it
FmtInt(n) == ToString(n)

\* format!("{:?}", Option<i32>)
DebugOptI32(o) == IF o.some THEN <<"Some(", FmtInt(o.v), ")">> ELSE <<"None">>

\* Option<String>::unwrap_or_else(|| default)
UnwrapOrElse(o, default) == IF o.some THEN o.v ELSE default

\* ------------------------------------------------- JSON (serde_json) ---
\* A JSON value found under a key of the provider's result object.
\*   t = "absent"  key missing
\*   t = "str"     a string (s)
\*   t = "float"   a number with a fraction or exponent
\*   t = "int"     an integer n; w is the narrowest of i32, i64, u64 that
\*                 holds it (n is only the label of a value wider than i32)
JAbsent == [t |-> "absent", n |-> 0, w |-> "", s |-> ""]
JStr(s) == [t |-> "str", n |-> 0, w |-> "", s |-> s]
JFloat == [t |-> "float", n |-> 0, w |-> "", s |-> ""]
JInt(n, w) == [t |-> "int", n |-> n, w |-> w, s |-> ""]

\* serde_json::Value::as_i64: Some for an integer that fits i64
AsI64(j) == IF j.t = "int" /\ j.w \in {"i32", "i64"} THEN SomeInt(j.n) ELSE NoneInt

\* serde_json::Value::as_str
AsStr(j) == IF j.t = "str" THEN SomeStr(j.s) ELSE NoneStr

\* TelegramResponse.result : Option<Value>
\*   t = "none"   field missing or null
\*   t = "other"  a JSON value that is not an object
\*   t = "obj"    an object with (possibly absent) message_id and username
NoResult == [t |-> "none", message_id |-> JAbsent, username |-> JAbsent]
NonObject == [t |-> "other", message_id |-> JAbsent, username |-> JAbsent]
Obj(mid, uname) == [t |-> "obj", message_id |-> mid, username |-> uname]

\* result.as_ref()?.get(key) : Value::get is None on a non-object
Get(result, key) ==
    IF result.t # "obj" THEN JAbsent
    ELSE IF key = "message_id" THEN result.message_id
    ELSE IF key = "username" THEN result.username
    ELSE JAbsent

\* mutant: the message_id is taken whatever its JSON type
extract_message_id_untyped(result) ==
    IF Get(result, "message_id").t = "absent" THEN NoneInt
    ELSE SomeInt(Get(result, "message_id").n)

\* handlers.rs extract_message_id
extract_message_id(result) == AsI64(Get(result, "message_id"))

\* handlers.rs health: result.get("username").and_then(as_str)
extract_username(result) == AsStr(Get(result, "username"))

\* ---------------------------------------------------- provider client ---
\* What comes back for one outbound call.
\*   completed  FALSE when reqwest's send() fails (no response at all)
\*   status     HTTP status of the response
\*   json       TRUE when the body is a JSON object with a boolean "ok"
\*   ok, result, description, error_code   the fields of that object
NetFail ==
    [completed |-> FALSE, status |-> 0, json |-> FALSE, ok |-> FALSE,
     result |-> NoResult, description |-> NoneStr, error_code |-> JAbsent]
Reply(status, json, ok, result, description, error_code) ==
    [completed |-> TRUE, status |-> status, json |-> json, ok |-> ok,
     result |-> result, description |-> description, error_code |-> error_code]

\* response.json::<TelegramResponse>() succeeds: error_code is Option<i32>
\* mutant: error_code is taken at any integer width
ParsesLenient(o) == o.json /\ o.error_code.t \in {"absent", "int"}

Parses(o) == o.json /\ (o.error_code.t = "absent" \/ (o.error_code.t = "int" /\ o.error_code.w = "i32"))

\* the parsed TelegramResponse
TelegramResponse(o) ==
    [ok |-> o.ok, result |-> o.result, description |-> o.description,
     error_code |-> IF o.error_code.t = "int" THEN SomeInt(o.error_code.n) ELSE NoneInt]

NoResponse ==
    [ok |-> FALSE, result |-> NoResult, description |-> NoneStr, error_code |-> NoneInt]

Ok(resp) == [is_ok |-> TRUE, response |-> resp, err |-> <<>>]
Err(text) == [is_ok |-> FALSE, response |-> NoResponse, err |-> text]

\* mutant: the error text leaves the code out
ApiErrorTextNoCode(resp) ==
    <<"Telegram API error: ", UnwrapOrElse(resp.description, "Unknown error")>>

\* anyhow!("Telegram API error: {} (code: {:?})", description, error_code)
ApiErrorText(resp) ==
    <<"Telegram API error: ", UnwrapOrElse(resp.description, "Unknown error"), " (code: ">>
        \o DebugOptI32(resp.error_code) \o <<")">>

\* mutant: the check of telegram_response.ok is left out
SendMessageAdvancedResultNoOkCheck(o) ==
    IF ~o.completed THEN Err(<<"Failed to send request to Telegram API">>)
    ELSE IF ~Parses(o) THEN Err(<<"Failed to parse Telegram API response">>)
    ELSE Ok(TelegramResponse(o))

\* mutant: a response with an error status is a failed request (error_for_status)
SendMessageAdvancedResultStatusChecked(o) ==
    IF ~o.completed \/ o.status >= 400
    THEN Err(<<"Failed to send request to Telegram API">>)
    ELSE IF ~Parses(o) THEN Err(<<"Failed to parse Telegram API response">>)
    ELSE IF ~TelegramResponse(o).ok THEN Err(ApiErrorText(TelegramResponse(o)))
    ELSE Ok(TelegramResponse(o))

\* the part of send_message_advanced after the POST was issued
SendMessageAdvancedResult(o) ==
    IF ~o.completed THEN Err(<<"Failed to send request to Telegram API">>)
    ELSE IF ~Parses(o) THEN Err(<<"Failed to parse Telegram API response">>)
    ELSE IF ~TelegramResponse(o).ok THEN Err(ApiErrorText(TelegramResponse(o)))
    ELSE Ok(TelegramResponse(o))

\* mutant: get_me without the check of telegram_response.ok
GetMeResultNoOkCheck(o) ==
    IF ~o.completed THEN Err(<<"Failed to send getMe request to Telegram API">>)
    ELSE IF ~Parses(o) THEN Err(<<"Failed to parse Telegram API response">>)
    ELSE Ok(TelegramResponse(o))

\* the part of get_me after the GET was issued
GetMeResult(o) ==
    IF ~o.completed THEN Err(<<"Failed to send getMe request to Telegram API">>)
    ELSE IF ~Parses(o) THEN Err(<<"Failed to parse Telegram API response">>)
    ELSE IF ~TelegramResponse(o).ok THEN Err(ApiErrorText(TelegramResponse(o)))
    ELSE Ok(TelegramResponse(o))

\* TelegramBot::new
ApiUrl(bot_token) == <<TELEGRAM_API_BASE, bot_token>>

\* serde_json values of the fields of SendMessageRequest
JsonString(s) == [t |-> "string", v |-> s]
JsonBool(b) == [t |-> "bool", v |-> IF b THEN "true" ELSE "false"]
JsonNull == [t |-> "null", v |-> "null"]

\* a field under #[serde(skip_serializing_if = "Option::is_none")]
SkipSerializingIfNone(key, opt, value) ==
    IF opt.some THEN <<[key |-> key, value |-> value]>> ELSE <<>>

\* mutant: serialization without the skip_serializing_if attributes
ToJsonWithNulls(request) ==
    << [key |-> "chat_id", value |-> JsonString(request.chat_id)],
       [key |-> "text", value |-> JsonString(request.text)],
       [key |-> "parse_mode",
        value |-> IF request.parse_mode.some
                  THEN JsonString(request.parse_mode.v) ELSE JsonNull],
       [key |-> "disable_notification",
        value |-> IF request.disable_notification.some
                  THEN JsonBool(request.disable_notification.v) ELSE JsonNull] >>

\* .json(&request): the members of the serialized SendMessageRequest, in field order
ToJson(request) ==
    << [key |-> "chat_id", value |-> JsonString(request.chat_id)],
       [key |-> "text", value |-> JsonString(request.text)] >>
    \o SkipSerializingIfNone("parse_mode", request.parse_mode,
                             JsonString(request.parse_mode.v))
    \o SkipSerializingIfNone("disable_notification", request.disable_notification,
                             JsonBool(request.disable_notification.v))

\* the SendMessageRequest built by send_message_advanced
SendMessageRequest(chat_id, message, parse_mode, disable_notification) ==
    [chat_id |-> chat_id, text |-> message, parse_mode |-> parse_mode,
     disable_notification |-> IF disable_notification THEN SomeBool(TRUE) ELSE NoneBool]

NoCall ==
    [op |-> "none", url |-> <<>>, chat_id |-> "", text |-> "",
     parse_mode |-> NoneStr, disable_notification |-> NoneBool, body |-> <<>>]

\* the POST issued by send_message_advanced: url and SendMessageRequest
SendMessageAdvancedCall(api_url, chat_id, message, parse_mode, disable_notification) ==
    LET request == SendMessageRequest(chat_id, message, parse_mode, disable_notification)
    IN  [op |-> "sendMessage", url |-> api_url \o <<"/sendMessage">>,
         chat_id |-> request.chat_id, text |-> request.text,
         parse_mode |-> request.parse_mode,
         disable_notification |-> request.disable_notification,
         body |-> ToJson(request)]

\* mutant: send_message passes no parse mode
SendMessageCallPlain(api_url, chat_id, message) ==
    SendMessageAdvancedCall(api_url, chat_id, message, NoneStr, FALSE)

\* send_message: send_message_advanced(chat_id, message, Some("Markdown"), false)
SendMessageCall(api_url, chat_id, message) ==
    SendMessageAdvancedCall(api_url, chat_id, message, SomeStr("Markdown"), FALSE)

\* the GET issued by get_me
GetMeCall(api_url) ==
    [op |-> "getMe", url |-> api_url \o <<"/getMe">>, chat_id |-> "", text |-> "",
     parse_mode |-> NoneStr, disable_notification |-> NoneBool, body |-> <<>>]

\* the provider outcomes the model draws from
ResultPayloads ==
    { NoResult, NonObject, Obj(JAbsent, JAbsent),
      Obj(JInt(7, "i32"), JAbsent), Obj(JInt(9, "i64"), JAbsent),
      Obj(JInt(8, "u64"), JAbsent), Obj(JFloat, JAbsent), Obj(JStr("7"), JAbsent),
      Obj(JAbsent, JStr("test_bot")), Obj(JInt(7, "i32"), JInt(5, "i32")) }

Outcomes ==
    { NetFail, Reply(500, FALSE, FALSE, NoResult, NoneStr, JAbsent) }
    \cup { Reply(200, TRUE, FALSE, NoResult, d, c) :
             d \in {NoneStr, SomeStr("chat not found")}, c \in {JAbsent, JInt(400, "i32")} }
    \cup { Reply(400, TRUE, FALSE, Obj(JInt(7, "i32"), JAbsent), SomeStr("chat not found"), c) :
             c \in {JInt(400, "i32"), JInt(1, "i64")} }
    \cup { Reply(200, TRUE, TRUE, r, NoneStr, JAbsent) : r \in ResultPayloads }
    \cup { Reply(st, TRUE, TRUE, Obj(JInt(7, "i32"), JAbsent), SomeStr("note"), JAbsent) :
             st \in {200, 500} }

\* the source() chain under the context of a failed call: the reqwest
\* error of .send() displays the url of the request, the one of .json()
\* does not; the anyhow! error of an ok == false envelope has no source
ErrorSource(call, o) ==
    IF ~o.completed
    THEN <<"error sending request for url (">> \o call.url \o <<")">>
    ELSE IF ~Parses(o) THEN <<"error decoding response body">>
    ELSE <<>>

\* {:?} of an anyhow::Error: its message, then its chain of sources
DebugError(err, source) ==
    IF source = <<>> THEN err ELSE err \o <<"Caused by: ">> \o source

\* what the runtime writes to stderr when main returns Err(e)
Termination(err, source) == <<"Error: ">> \o DebugError(err, source)

\* ------------------------------------------------------------ inputs ---
\* ConfigResolved as main receives it from Config::from_args_and_env:
\* bot_token and chat_id are non-empty, message is whatever --message gave
Configs ==
    [bot_token : {"tok"}, chat_id : {"c1"}, message : {"", "hi"}, server : BOOLEAN,
     port : {3000}]

NoConfig == [bot_token |-> "", chat_id |-> "", message |-> "", server |-> FALSE, port |-> 0]

\* a command line that gives a resolved configuration by its flags alone
LaunchOf(c) ==
    [bot_token |-> SomeStr(c.bot_token), chat_id |-> SomeStr(c.chat_id),
     message |-> c.message, server |-> c.server, port |-> c.port,
     env_bot_token |-> NoneStr, env_chat_id |-> NoneStr, env_port |-> EnvUnset]

\* values of the PORT environment variable
PortStrings ==
    { EnvUnset,
      EnvSet(<<>>),
      EnvSet(<<"8", "0", "8", "0">>),
      EnvSet(<<"0", "8", "0">>),
      EnvSet(<<"+", "8", "0">>),
      EnvSet(<<"-", "1">>),
      EnvSet(<<"+">>),
      EnvSet(<<" ", "8", "0">>),
      EnvSet(<<"8", "0", "a">>),
      EnvSet(<<"6", "5", "5", "3", "5">>),
      EnvSet(<<"6", "5", "5", "3", "6">>) }

\* Config as clap parsed it, with the three environment variables
\* from_args_and_env reads
Launches ==
    [bot_token : {NoneStr, SomeStr(""), SomeStr("tok")},
     chat_id : {NoneStr, SomeStr(""), SomeStr("c1")},
     message : {"hi"},
     server : BOOLEAN,
     port : {3000, 8080},
     env_bot_token : {NoneStr, SomeStr(""), SomeStr("tok2")},
     env_chat_id : {NoneStr, SomeStr(""), SomeStr("c3")},
     env_port : PortStrings]

\* u16::MAX
U16_MAX == 65535

\* char::to_digit(10), -1 for a character that is no digit
DigitValue(c) ==
    CASE c = "0" -> 0 [] c = "1" -> 1 [] c = "2" -> 2 [] c = "3" -> 3 [] c = "4" -> 4
      [] c = "5" -> 5 [] c = "6" -> 6 [] c = "7" -> 7 [] c = "8" -> 8 [] c = "9" -> 9
      [] OTHER -> -1

\* the digit loop of u16::from_str: an invalid digit or an overflow is an error
RECURSIVE ParseDigits(_, _)
ParseDigits(chars, acc) ==
    IF chars = <<>> THEN SomeInt(acc)
    ELSE IF DigitValue(Head(chars)) < 0 THEN NoneInt
    ELSE IF acc * 10 + DigitValue(Head(chars)) > U16_MAX THEN NoneInt
    ELSE ParseDigits(Tail(chars), acc * 10 + DigitValue(Head(chars)))

\* p.parse::<u16>().ok(): an optional "+", then at least one digit
ParseU16(chars) ==
    IF chars = <<>> THEN NoneInt
    ELSE LET digits == IF Head(chars) = "+" THEN Tail(chars) ELSE chars
         IN  IF digits = <<>> THEN NoneInt ELSE ParseDigits(digits, 0)

\* mutant: the --port flag wins over PORT
ResolvePortFlagFirst(l) == l.port

\* env::var("PORT").ok().and_then(|p| p.parse().ok()).unwrap_or(config.port)
ResolvePort(l) ==
    IF l.env_port.some /\ ParseU16(l.env_port.v).some
    THEN ParseU16(l.env_port.v).v
    ELSE l.port

\* match flag { Some(v) => v, None => env::var(NAME).map_err(..)? }
FlagOrEnv(flag, var) == IF flag.some THEN flag ELSE var

ConfigOk(c) == [is_ok |-> TRUE, config |-> c, err |-> <<>>]
ConfigErr(text) == [is_ok |-> FALSE, config |-> NoConfig, err |-> text]

\* mutant: the resolved values are not checked for emptiness
from_args_and_env_unchecked(l) ==
    IF ~FlagOrEnv(l.bot_token, l.env_bot_token).some
    THEN ConfigErr(<<"Bot token is required">>)
    ELSE IF ~FlagOrEnv(l.chat_id, l.env_chat_id).some
    THEN ConfigErr(<<"Chat ID is required">>)
    ELSE ConfigOk([bot_token |-> FlagOrEnv(l.bot_token, l.env_bot_token).v,
                   chat_id |-> FlagOrEnv(l.chat_id, l.env_chat_id).v,
                   message |-> l.message, server |-> l.server,
                   port |-> ResolvePort(l)])

\* Config::from_args_and_env after Config::parse()
from_args_and_env(l) ==
    IF ~FlagOrEnv(l.bot_token, l.env_bot_token).some
    THEN ConfigErr(<<"Bot token is required">>)
    ELSE IF ~FlagOrEnv(l.chat_id, l.env_chat_id).some
    THEN ConfigErr(<<"Chat ID is required">>)
    ELSE IF FlagOrEnv(l.bot_token, l.env_bot_token).v = ""
    THEN ConfigErr(<<"Bot token cannot be empty">>)
    ELSE IF FlagOrEnv(l.chat_id, l.env_chat_id).v = ""
    THEN ConfigErr(<<"Chat ID cannot be empty">>)
    ELSE ConfigOk([bot_token |-> FlagOrEnv(l.bot_token, l.env_bot_token).v,
                   chat_id |-> FlagOrEnv(l.chat_id, l.env_chat_id).v,
                   message |-> l.message, server |-> l.server,
                   port |-> ResolvePort(l)])

\* SendNotificationRequest bodies that deserialize (message is present)
Requests ==
    [message : {"", "hi"},
     chat_id : {NoneStr, SomeStr(""), SomeStr("c2")},
     parse_mode : {NoneStr, SomeStr("Markdown")},
     disable_notification : {NoneBool, SomeBool(FALSE), SomeBool(TRUE)}]

\* JSON object bodies posted to /notify and /send: message may be missing
Bodies ==
    [message : {NoneStr, SomeStr(""), SomeStr("hi")},
     chat_id : {NoneStr, SomeStr(""), SomeStr("c2")},
     parse_mode : {NoneStr, SomeStr("Markdown")},
     disable_notification : {NoneBool, SomeBool(FALSE), SomeBool(TRUE)}]

\* serde's Deserialize of SendNotificationRequest: message is required,
\* the Option fields default to None
Deserialize(body) ==
    IF body.message.some
    THEN [some |-> TRUE,
          v |-> [message |-> body.message.v, chat_id |-> body.chat_id,
                 parse_mode |-> body.parse_mode,
                 disable_notification |-> body.disable_notification]]
    ELSE [some |-> FALSE,
          v |-> [message |-> "", chat_id |-> NoneStr, parse_mode |-> NoneStr,
                 disable_notification |-> NoneBool]]

SomeRequest(request) == [some |-> TRUE, v |-> request]

NoRequest ==
    [message |-> "", chat_id |-> NoneStr, parse_mode |-> NoneStr,
     disable_notification |-> NoneBool]

\* ------------------------------------------------------------- state ---
VARIABLES
    launch,           \* the command line and the environment variables the process started with
    env,              \* TELEGRAM_NOTIFICATIONS_SKIP_VALIDATION in the process environment
    config,           \* main: the ConfigResolved
    pc,               \* main: "start", "verify", "serve", "cli", "exit_ok", "exit_err"
    skip_validation,  \* main: its local skip_validation
    bot,              \* main: TelegramBot.api_url
    state,            \* run_server: the shared AppState
    main_call,        \* main: the outbound call it is awaiting, with the toggle when it was issued
    main_err,         \* main: what its return wrote to the process error output
    req,              \* the handler invocations in flight, one per slot
    last              \* what the latest handler step returned to its client, with the
                      \* message of its request, the toggle at its invocation, the calls
                      \* it issued and the provider's answer (NoLast when that step
                      \* suspended on the provider instead)

vars == <<launch, env, config, pc, skip_validation, bot, state, main_call, main_err, req, last>>

NoState == [bot |-> <<>>, default_chat_id |-> ""]

NoOutcome ==
    [completed |-> FALSE, status |-> -1, json |-> FALSE, ok |-> FALSE,
     result |-> NoResult, description |-> NoneStr, error_code |-> JAbsent]

NoMainCall == [call |-> NoCall, active |-> FALSE]

\* a slot: handler ("notify", "health") and request of the invocation, whether the toggle was active
\* when it was invoked, the call it awaits and how many calls it has issued
IdleSlot ==
    [pc |-> "idle", op |-> "", request |-> NoRequest, active |-> FALSE,
     call |-> NoCall, attempts |-> 0]

\* axum serves a new request on a free task; the tasks are interchangeable,
\* so the model takes the free slot with the least index
FreeSlot(r) == req[r].pc = "idle" /\ \A x \in DOMAIN req : x < r => req[x].pc # "idle"

\* ----------------------------------------------------------- payloads ---
NoBody ==
    [status |-> 0, payload |-> "", success |-> FALSE, message |-> <<>>, telegram_message_id |-> NoneInt,
     error |-> <<>>, code |-> NoneStr,
     health |-> "", bot_verified |-> FALSE, bot_username |-> NoneStr]

\* mutant: the error payload is built without its code
ErrorResponseNoCode(status, error, code) ==
    [NoBody EXCEPT !.status = status, !.payload = "ErrorResponse", !.success = FALSE,
                   !.error = error]

\* (StatusCode, Json(ErrorResponse::with_code(error, code)))
ErrorResponse(status, error, code) ==
    [NoBody EXCEPT !.status = status, !.payload = "ErrorResponse", !.success = FALSE,
                   !.error = error, !.code = SomeStr(code)]

\* Ok(Json(SendNotificationResponse { success: true, message, telegram_message_id }))
SendNotificationResponse(message, telegram_message_id) ==
    [NoBody EXCEPT !.status = 200, !.payload = "SendNotificationResponse",
                   !.success = TRUE, !.message = message,
                   !.telegram_message_id = telegram_message_id]

\* Ok(Json(HealthResponse { status: "healthy", bot_verified, bot_username, .. }))
HealthResponse(bot_verified, bot_username) ==
    [NoBody EXCEPT !.status = 200, !.payload = "HealthResponse",
                   !.health = "healthy", !.bot_verified = bot_verified,
                   !.bot_username = bot_username]

NoLast ==
    [op |-> "", message |-> "", active |-> FALSE, attempts |-> 0,
     outcome |-> NoOutcome, response |-> NoBody]

\* ------------------------------------------------------------ notify ---
\* mutant: the validation of the message is left out
MessageIsEmptyNever(request) == FALSE

\* request.message.is_empty()
MessageIsEmpty(request) == request.message = ""

\* request.chat_id.as_ref().unwrap_or(&state.default_chat_id)
ResolveChatId(request, st) ==
    IF request.chat_id.some THEN request.chat_id.v ELSE st.default_chat_id

\* mutant: notify uses the value main read at startup
notify_skip_validation_cached == skip_validation

\* notify's read of the toggle
notify_skip_validation == SkipValidation(env)

\* health's read of the toggle
health_skip_validation == SkipValidation(env)

EmptyMessageResponse == ErrorResponse(400, <<"Message cannot be empty">>, "EMPTY_MESSAGE")

\* mutant: the test-mode branch answers with the text of a real send
SimulatedResponseUnmarked ==
    SendNotificationResponse(<<"Notification sent successfully">>, SomeInt(42))

\* the result of the test-mode branch of notify
SimulatedResponse ==
    SendNotificationResponse(<<"Notification sent successfully", " (", "test mode", ")">>, SomeInt(42))

\* notify's mapping of the result of send_message_advanced
NotifyResponse(result) ==
    IF result.is_ok
    THEN SendNotificationResponse(<<"Notification sent successfully">>,
                                  extract_message_id(result.response.result))
    ELSE ErrorResponse(502, <<"Failed to send notification: ">> \o result.err,
                       "TELEGRAM_API_ERROR")

\* mutant: the handlers of an operation answer from one shared response buffer
ReturnShared(r, op, request, active, attempts, outcome, response) ==
    /\ req' = [req EXCEPT ![r] = IdleSlot]
    /\ last' = [op |-> op, message |-> request.message, active |-> active,
                attempts |-> attempts, outcome |-> outcome,
                response |-> IF last.op = op THEN last.response ELSE response]

\* the handler returns: its slot is free again and its result is observed
Return(r, op, request, active, attempts, outcome, response) ==
    /\ req' = [req EXCEPT ![r] = IdleSlot]
    /\ last' = [op |-> op, message |-> request.message, active |-> active,
                attempts |-> attempts, outcome |-> outcome, response |-> response]

\* POST /notify up to the await of send_message_advanced (or to its return
\* when it does not call the provider)
Notify(r, request) ==
    /\ pc = "serve"
    /\ FreeSlot(r)
    /\ IF MessageIsEmpty(request)
       THEN Return(r, "notify", request, SkipValidation(env), 0, NoOutcome,
                   EmptyMessageResponse)
       ELSE IF notify_skip_validation
       THEN Return(r, "notify", request, SkipValidation(env), 0, NoOutcome,
                   SimulatedResponse)
       ELSE /\ req' = [req EXCEPT ![r] =
                         [pc |-> "await", op |-> "notify", request |-> request,
                          active |-> SkipValidation(env),
                          call |-> SendMessageAdvancedCall(
                                       state.bot, ResolveChatId(request, state),
                                       request.message, request.parse_mode,
                                       IF request.disable_notification.some
                                       THEN request.disable_notification.v ELSE FALSE),
                          attempts |-> 1]]
            /\ last' = NoLast
    /\ UNCHANGED <<env, launch, config, pc, skip_validation, bot, state, main_call, main_err>>

\* mutant: /send with a handler of its own that does not validate the message
SendUnvalidated(r, request) ==
    /\ pc = "serve"
    /\ FreeSlot(r)
    /\ IF notify_skip_validation
       THEN Return(r, "notify", request, SkipValidation(env), 0, NoOutcome,
                   SimulatedResponse)
       ELSE /\ req' = [req EXCEPT ![r] =
                         [pc |-> "await", op |-> "notify", request |-> request,
                          active |-> SkipValidation(env),
                          call |-> SendMessageAdvancedCall(
                                       state.bot, ResolveChatId(request, state),
                                       request.message, request.parse_mode,
                                       IF request.disable_notification.some
                                       THEN request.disable_notification.v ELSE FALSE),
                          attempts |-> 1]]
            /\ last' = NoLast
    /\ UNCHANGED <<env, launch, config, pc, skip_validation, bot, state, main_call, main_err>>

\* POST /send: notify(state, request).await
Send(r, request) == Notify(r, request)

\* the response of the Json extractor to a body that does not deserialize
JsonRejectionResponse ==
    [NoBody EXCEPT !.status = 422,
                   !.error = <<"Failed to deserialize the JSON body into the target type">>]

\* mutant: a body without message is answered like an empty message
JsonRejectionAsValidation(r, body) ==
    /\ pc = "serve"
    /\ FreeSlot(r)
    /\ ~Deserialize(body).some
    /\ Return(r, "rejection", NoRequest, FALSE, 0, NoOutcome, EmptyMessageResponse)
    /\ UNCHANGED <<env, launch, config, pc, skip_validation, bot, state, main_call, main_err>>

\* POST /notify or /send with a body the Json extractor rejects: the
\* handler is not called
JsonRejection(r, body) ==
    /\ pc = "serve"
    /\ FreeSlot(r)
    /\ ~Deserialize(body).some
    /\ Return(r, "rejection", NoRequest, FALSE, 0, NoOutcome, JsonRejectionResponse)
    /\ UNCHANGED <<env, launch, config, pc, skip_validation, bot, state, main_call, main_err>>

\* mutant: a failed send is tried once more
NotifyReplyRetry(r, o) ==
    /\ req[r].pc = "await"
    /\ req[r].call.op = "sendMessage"
    /\ IF ~SendMessageAdvancedResult(o).is_ok /\ req[r].attempts < 2
       THEN /\ req' = [req EXCEPT ![r].attempts = @ + 1]
            /\ last' = NoLast
       ELSE Return(r, "notify", req[r].request, req[r].active, req[r].attempts,
                   o, NotifyResponse(SendMessageAdvancedResult(o)))
    /\ UNCHANGED <<env, launch, config, pc, skip_validation, bot, state, main_call, main_err>>

\* notify from the provider's answer to its return
NotifyReply(r, o) ==
    /\ req[r].pc = "await"
    /\ req[r].call.op = "sendMessage"
    /\ Return(r, "notify", req[r].request, req[r].active, req[r].attempts,
              o, NotifyResponse(SendMessageAdvancedResult(o)))
    /\ UNCHANGED <<env, launch, config, pc, skip_validation, bot, state, main_call, main_err>>

\* ------------------------------------------------------------ health ---
\* mutant: the test-mode branch of health reports a verified bot
SimulatedHealthVerified == HealthResponse(TRUE, SomeStr("test-bot"))

\* the result of the test-mode branch of health
SimulatedHealth == HealthResponse(FALSE, SomeStr("test-bot"))

\* mutant: a failed get_me is reported as a healthy, unverified service
HealthResultSwallowed(result) ==
    IF result.is_ok
    THEN HealthResponse(TRUE, extract_username(result.response.result))
    ELSE HealthResponse(FALSE, NoneStr)

\* health's mapping of the result of get_me
HealthResult(result) ==
    IF result.is_ok
    THEN HealthResponse(TRUE, extract_username(result.response.result))
    ELSE ErrorResponse(503, <<"Bot verification failed">>, "BOT_VERIFICATION_FAILED")

\* GET /health up to the await of get_me
Health(r) ==
    /\ pc = "serve"
    /\ FreeSlot(r)
    /\ IF health_skip_validation
       THEN Return(r, "health", NoRequest, SkipValidation(env), 0, NoOutcome,
                   SimulatedHealth)
       ELSE /\ req' = [req EXCEPT ![r] =
                         [pc |-> "await", op |-> "health", request |-> NoRequest,
                          active |-> SkipValidation(env), call |-> GetMeCall(state.bot),
                          attempts |-> 1]]
            /\ last' = NoLast
    /\ UNCHANGED <<env, launch, config, pc, skip_validation, bot, state, main_call, main_err>>

\* mutant: the answers of the provider are handled in the order of the invocations
HealthReplyInOrder(r, o) ==
    /\ req[r].pc = "await"
    /\ req[r].call.op = "getMe"
    /\ \A x \in DOMAIN req : x < r => req[x].pc # "await"
    /\ Return(r, "health", NoRequest, req[r].active, req[r].attempts,
              o, HealthResult(GetMeResult(o)))
    /\ UNCHANGED <<env, launch, config, pc, skip_validation, bot, state, main_call, main_err>>

\* health from the provider's answer to its return
HealthReply(r, o) ==
    /\ req[r].pc = "await"
    /\ req[r].call.op = "getMe"
    /\ Return(r, "health", NoRequest, req[r].active, req[r].attempts,
              o, HealthResult(GetMeResult(o)))
    /\ UNCHANGED <<env, launch, config, pc, skip_validation, bot, state, main_call, main_err>>

\* -------------------------------------------------------------- main ---
\* main after bot verification: run_server up to axum::serve, or
\* run_cli_mode up to the await of send_message
RunMode(bound) ==
    IF config.server
    THEN IF bound
         THEN /\ state' = [bot |-> bot', default_chat_id |-> config.chat_id]
              /\ pc' = "serve"
              /\ main_call' = NoMainCall
              /\ main_err' = <<>>
         ELSE /\ pc' = "exit_err"
              /\ main_call' = NoMainCall
              /\ main_err' = Termination(<<"bind">>, <<>>)
              /\ state' = state
    ELSE /\ pc' = "cli"
         /\ main_call' = [call |-> SendMessageCall(bot', config.chat_id, config.message),
                          active |-> SkipValidation(env)]
         /\ main_err' = <<>>
         /\ state' = state

\* main from TelegramBot::new to its first await (get_me, send_message or serve)
MainStart(bound) ==
    /\ pc = "start"
    /\ bot' = ApiUrl(config.bot_token)
    /\ skip_validation' = SkipValidation(env)
    /\ IF ~skip_validation'
       THEN /\ pc' = "verify"
            /\ main_call' = [call |-> GetMeCall(bot'), active |-> SkipValidation(env)]
            /\ UNCHANGED <<state, main_err>>
       ELSE RunMode(bound)
    /\ UNCHANGED <<env, launch, config, req, last>>

\* mutant: main logs a failed verification and carries on
VerifyReplyLenient(o, bound) ==
    /\ pc = "verify"
    /\ bot' = bot
    /\ RunMode(bound)
    /\ UNCHANGED <<launch, env, config, skip_validation, req, last>>

\* main from the provider's answer to get_me to its next await or its return
VerifyReply(o, bound) ==
    /\ pc = "verify"
    /\ bot' = bot
    /\ IF GetMeResult(o).is_ok
       THEN RunMode(bound)
       ELSE /\ pc' = "exit_err"
            /\ main_err' = Termination(GetMeResult(o).err, ErrorSource(main_call.call, o))
            /\ main_call' = NoMainCall
            /\ state' = state
    /\ UNCHANGED <<env, launch, config, skip_validation, req, last>>

\* run_cli_mode from the provider's answer to send_message to the return of main
CliReply(o) ==
    /\ pc = "cli"
    /\ IF SendMessageAdvancedResult(o).is_ok
       THEN pc' = "exit_ok" /\ main_err' = <<>>
       ELSE /\ pc' = "exit_err"
            /\ main_err' = Termination(SendMessageAdvancedResult(o).err,
                                       ErrorSource(main_call.call, o))
    /\ main_call' = NoMainCall
    /\ UNCHANGED <<env, launch, config, skip_validation, bot, state, req, last>>

\* std::env::set_var / remove_var on the toggle, by the embedding process
SetEnv(v) ==
    /\ v # env
    /\ env' = v
    /\ UNCHANGED <<launch, config, pc, skip_validation, bot, state, main_call, main_err, req, last>>

\* ----------------------------------------------------- specification ---
Init ==
    /\ env \in EnvValues
    /\ config \in Configs
    /\ launch = LaunchOf(config)
    /\ pc = "start"
    /\ skip_validation = FALSE
    /\ bot = <<>>
    /\ state = NoState
    /\ main_call = NoMainCall
    /\ main_err = <<>>
    /\ req = [r \in Slots |-> IdleSlot]
    /\ last = NoLast

Next ==
    \/ \E bound \in BOOLEAN : MainStart(bound)
    \/ \E o \in Outcomes, bound \in BOOLEAN : VerifyReply(o, bound)
    \/ \E o \in Outcomes : CliReply(o)
    \/ \E v \in EnvValues : SetEnv(v)
    \/ \E r \in Slots, request \in Requests : Notify(r, request)
    \/ \E r \in Slots, request \in Requests : Send(r, request)
    \/ \E r \in Slots, body \in Bodies : JsonRejection(r, body)
    \/ \E r \in Slots, o \in Outcomes : NotifyReply(r, o)
    \/ \E r \in Slots : Health(r)
    \/ \E r \in Slots, o \in Outcomes : HealthReply(r, o)

Spec == Init /\ [][Next]_vars

\* --------------------------------- specification of the process start ---
\* main: let config = Config::from_args_and_env()?
LoadConfig ==
    /\ pc = "config"
    /\ IF from_args_and_env(launch).is_ok
       THEN /\ config' = from_args_and_env(launch).config
            /\ pc' = "start"
            /\ main_err' = <<>>
       ELSE /\ config' = NoConfig
            /\ pc' = "exit_err"
            /\ main_err' = Termination(from_args_and_env(launch).err, <<>>)
    /\ UNCHANGED <<launch, env, skip_validation, bot, state, main_call, req, last>>

StartOutcomes ==
    { NetFail,
      Reply(200, TRUE, FALSE, NoResult, SomeStr("chat not found"), JInt(400, "i32")),
      Reply(200, TRUE, TRUE, Obj(JAbsent, JStr("test_bot")), NoneStr, JAbsent) }

StartEnvValues == {EnvUnset, EnvSet(<<"t", "r", "u", "e">>)}

\* the process before main has read its configuration
InitConfig ==
    /\ launch \in Launches
    /\ env \in StartEnvValues
    /\ config = NoConfig
    /\ pc = "config"
    /\ skip_validation = FALSE
    /\ bot = <<>>
    /\ state = NoState
    /\ main_call = NoMainCall
    /\ main_err = <<>>
    /\ req = [r \in Slots |-> IdleSlot]
    /\ last = NoLast

NextConfig ==
    \/ LoadConfig
    \/ \E bound \in BOOLEAN : MainStart(bound)
    \/ \E o \in StartOutcomes, bound \in BOOLEAN : VerifyReply(o, bound)
    \/ \E o \in StartOutcomes : CliReply(o)

SpecConfig == InitConfig /\ [][NextConfig]_vars

\* ---------------------------------- specification of the running server ---
ConcSlots == 1..MaxConcurrent

ConcEnvValues == {EnvUnset, EnvSet(<<"t", "r", "u", "e">>)}

ConcRequests ==
    { [message |-> "", chat_id |-> NoneStr, parse_mode |-> NoneStr,
       disable_notification |-> NoneBool],
      [message |-> "hi", chat_id |-> NoneStr, parse_mode |-> NoneStr,
       disable_notification |-> NoneBool],
      [message |-> "hi", chat_id |-> SomeStr(""), parse_mode |-> NoneStr,
       disable_notification |-> SomeBool(FALSE)],
      [message |-> "hi", chat_id |-> SomeStr("c2"), parse_mode |-> SomeStr("Markdown"),
       disable_notification |-> SomeBool(TRUE)],
      [message |-> "hi", chat_id |-> NoneStr, parse_mode |-> SomeStr("MarkdownV2"),
       disable_notification |-> NoneBool] }

ConcBodies ==
    { [message |-> NoneStr, chat_id |-> SomeStr("c2"), parse_mode |-> NoneStr,
       disable_notification |-> NoneBool],
      [message |-> SomeStr("hi"), chat_id |-> NoneStr, parse_mode |-> NoneStr,
       disable_notification |-> NoneBool] }

ConcOutcomes ==
    { NetFail,
      Reply(200, TRUE, FALSE, NoResult, SomeStr("chat not found"), JInt(400, "i32")),
      Reply(200, TRUE, TRUE, Obj(JInt(7, "i32"), JAbsent), NoneStr, JAbsent),
      Reply(200, TRUE, TRUE, Obj(JAbsent, JStr("test_bot")), NoneStr, JAbsent) }

\* main has verified the bot and run_server is in axum::serve
InitConc ==
    /\ env \in ConcEnvValues
    /\ config \in {c \in Configs : c.server}
    /\ launch = LaunchOf(config)
    /\ pc = "serve"
    /\ skip_validation = FALSE
    /\ bot = ApiUrl(config.bot_token)
    /\ state = [bot |-> bot, default_chat_id |-> config.chat_id]
    /\ main_call = NoMainCall
    /\ main_err = <<>>
    /\ req = [r \in ConcSlots |-> IdleSlot]
    /\ last = NoLast

NextConc ==
    \/ \E v \in ConcEnvValues : SetEnv(v)
    \/ \E r \in ConcSlots, request \in ConcRequests : Notify(r, request)
    \/ \E r \in ConcSlots, request \in ConcRequests : Send(r, request)
    \/ \E r \in ConcSlots, body \in ConcBodies : JsonRejection(r, body)
    \/ \E r \in ConcSlots, o \in ConcOutcomes : NotifyReply(r, o)
    \/ \E r \in ConcSlots : Health(r)
    \/ \E r \in ConcSlots, o \in ConcOutcomes : HealthReply(r, o)

SpecConc == InitConc /\ [][NextConc]_vars

\* the provider answers the call of the invocation in slot r, and the
\* runtime resumes its handler
ProviderAnswers(r) ==
    \E o \in ConcOutcomes : NotifyReply(r, o) \/ HealthReply(r, o)

\* the invocations whose provider call returns: all but the one in the
\* first slot, whose call may never return
Answered == ConcSlots \ {1}

\* the running server on the multi-threaded runtime: a handler whose call
\* has returned is resumed
SpecConcFair == SpecConc /\ \A r \in Answered : WF_vars(ProviderAnswers(r))

\* ------------------------------------------------------------- claims ---
\* the calls that are on the wire: one per suspended handler, one for main
InFlight ==
    {req[r].call : r \in {x \in Slots : req[x].pc = "await"}}
        \cup (IF main_call.call.op = "none" THEN {} ELSE {main_call.call})

\* the provider answered with a body that deserializes as the envelope
ParsedEnvelope(o) ==
    o.completed /\ o.json /\ (o.error_code.t = "int" => o.error_code.w = "i32")

\* the latest handler step was a notify/send that returned
NotifyReturned == last.op = "notify"

\* C1: a notify/send request with an empty message is answered 400
\* EMPTY_MESSAGE without any outbound call, whatever the toggle; a request
\* with a non-empty message is never answered with the validation error.
C1_EmptyMessageRejected ==
    /\ (NotifyReturned /\ last.message = "") =>
          /\ last.response.status = 400
          /\ ~last.response.success
          /\ last.response.code = SomeStr("EMPTY_MESSAGE")
          /\ last.attempts = 0
    /\ (NotifyReturned /\ last.message # "") =>
          /\ last.response.status # 400
          /\ last.response.code # SomeStr("EMPTY_MESSAGE")
    /\ \A r \in Slots : req[r].op = "notify" => req[r].request.message # ""

C1_Witness ==
    /\ NotifyReturned
    /\ last.message = ""
    /\ ~last.active
    /\ last.response.status = 400

\* C2: the chat_id of the sendMessage call of a notify request is the
\* request's chat_id when that is present and non-empty, and the configured
\* default chat_id otherwise (omitted, or present but empty).
C2_DestinationResolution ==
    \A r \in Slots :
        (req[r].pc = "await" /\ req[r].op = "notify") =>
            req[r].call.chat_id =
                IF req[r].request.chat_id.some /\ req[r].request.chat_id.v # ""
                THEN req[r].request.chat_id.v
                ELSE state.default_chat_id

\* C3: with the toggle active, a notify/send request with a non-empty
\* message returns 200 success with telegram_message_id 42 and a message
\* that contains "test mode" and differs from the message of every real
\* send, and no outbound call is made for it.
C3_SimulatedSend ==
    /\ (NotifyReturned /\ last.active /\ last.message # "") =>
          /\ last.response.status = 200
          /\ last.response.success
          /\ last.response.telegram_message_id = SomeInt(42)
          /\ Contains(last.response.message, "test mode")
          /\ \A o \in Outcomes :
                NotifyResponse(SendMessageAdvancedResult(o)).message # last.response.message
          /\ last.attempts = 0
    /\ \A r \in Slots : req[r].pc = "await" => ~req[r].active

C3_Witness ==
    /\ NotifyReturned
    /\ last.active
    /\ last.message = "hi"
    /\ last.response.success
    /\ last.attempts = 0

\* C4: no outbound call is issued while the toggle is active, by startup
\* verification, health, notify/send or the one-shot send.
C4_NoOutboundWhenSimulating ==
    /\ main_call.call.op # "none" => ~main_call.active
    /\ \A r \in Slots : req[r].pc = "await" => ~req[r].active

\* C5 as stated: a notify result with success == true never comes from a
\* provider response that carries a description, and a response with
\* ok == false is a failure on the send path and on the verify-identity path.
C5_NoSuccessWithDescription ==
    /\ (NotifyReturned /\ last.response.success) => ~last.outcome.description.some
    /\ (last.op \in {"notify", "health"} /\ ParsedEnvelope(last.outcome) /\ ~last.outcome.ok) =>
          /\ ~last.response.success
          /\ last.response.status \in {502, 503}

\* C5 (amended): a notify result with success == true that came from the
\* provider came from an envelope with ok == true, and an envelope with
\* ok == false is a failure for notify (502), for health (503) and for the
\* startup verification and the one-shot send of main (main returns the error).
C5_OkFalseIsFailure ==
    /\ [](/\ (NotifyReturned /\ last.response.success /\ last.attempts > 0) =>
                (ParsedEnvelope(last.outcome) /\ last.outcome.ok)
          /\ (last.op \in {"notify", "health"} /\ ParsedEnvelope(last.outcome)
                /\ ~last.outcome.ok) =>
                /\ ~last.response.success
                /\ ~last.response.bot_verified
                /\ last.response.status = IF last.op = "notify" THEN 502 ELSE 503)
    /\ [][\A o \in Outcomes :
            (/\ ParsedEnvelope(o)
             /\ ~o.ok
             /\ ((\E b \in BOOLEAN : VerifyReply(o, b)) \/ CliReply(o))) =>
                pc' = "exit_err"]_vars

C5_Witness ==
    /\ NotifyReturned
    /\ ParsedEnvelope(last.outcome)
    /\ ~last.outcome.ok
    /\ last.outcome.description.some
    /\ last.response.status = 502

\* C6: when the parsed envelope has ok == false, notify answers 502
\* TELEGRAM_API_ERROR and its error text, like the error of the send
\* operation, contains the envelope's description and its error code.
C6_ProviderErrorPreserved ==
    (NotifyReturned /\ ParsedEnvelope(last.outcome) /\ ~last.outcome.ok) =>
        /\ last.response.status = 502
        /\ ~last.response.success
        /\ last.response.code = SomeStr("TELEGRAM_API_ERROR")
        /\ ~SendMessageAdvancedResult(last.outcome).is_ok
        /\ last.outcome.description.some =>
              /\ Contains(SendMessageAdvancedResult(last.outcome).err, last.outcome.description.v)
              /\ Contains(last.response.error, last.outcome.description.v)
        /\ last.outcome.error_code.t = "int" =>
              /\ Contains(SendMessageAdvancedResult(last.outcome).err,
                          FmtInt(last.outcome.error_code.n))
              /\ Contains(last.response.error, FmtInt(last.outcome.error_code.n))

C6_Witness ==
    /\ NotifyReturned
    /\ ParsedEnvelope(last.outcome)
    /\ ~last.outcome.ok
    /\ last.outcome.description = SomeStr("chat not found")
    /\ last.outcome.error_code = JInt(400, "i32")
    /\ Contains(last.response.error, "chat not found")
    /\ Contains(last.response.error, "400")

\* the integer message_id of a result payload: present when the payload is
\* an object whose message_id is a JSON integer in the range of i64
PayloadMessageId(result) ==
    IF /\ result.t = "obj"
       /\ result.message_id.t = "int"
       /\ result.message_id.w \in {"i32", "i64"}
    THEN SomeInt(result.message_id.n)
    ELSE NoneInt

\* C7: with the toggle inactive and an envelope with ok == true, notify
\* answers 200 success, and telegram_message_id is the integer message_id
\* of the result payload when it has one and absent otherwise.
C7_MessageIdExtracted ==
    (NotifyReturned /\ ~last.active /\ last.message # ""
        /\ ParsedEnvelope(last.outcome) /\ last.outcome.ok) =>
        /\ last.response.status = 200
        /\ last.response.success
        /\ last.response.telegram_message_id = PayloadMessageId(last.outcome.result)

C7_Witness ==
    /\ NotifyReturned
    /\ ~last.active
    /\ last.outcome.ok
    /\ last.outcome.result.message_id = JInt(7, "i32")
    /\ last.response.success
    /\ last.response.telegram_message_id = SomeInt(7)

\* C8: a notify/send request issues at most one sendMessage call and a
\* health request at most one getMe call; the step that follows the answer
\* of the provider is the return of the handler, also when the call failed.
C8_AtMostOneAttempt ==
    /\ [](/\ \A r \in Slots :
                /\ req[r].attempts <= 1
                /\ req[r].pc = "await" =>
                      req[r].call.op = IF req[r].op = "notify" THEN "sendMessage" ELSE "getMe"
          /\ last.attempts <= 1)
    /\ [][\A r \in Slots :
            (req[r].pc = "await" /\ req'[r] # req[r]) =>
                /\ req'[r].pc = "idle"
                /\ last'.op = req[r].op
                /\ last'.attempts = 1]_vars

C8_Witness ==
    /\ NotifyReturned
    /\ last.attempts = 1
    /\ ~last.outcome.completed
    /\ last.response.status = 502

\* C9: a notify/send (with a non-empty message) or health call contacts
\* the provider exactly when the toggle is inactive at the time of that
\* call, and returns the simulated result exactly when it is active,
\* whatever the toggle was at startup.
C9_ToggleReadPerCall ==
    /\ \A r \in Slots : req[r].pc = "await" => (~req[r].active /\ req[r].attempts = 1)
    /\ (last.op = "health" \/ (NotifyReturned /\ last.message # "")) =>
          /\ last.active <=> last.attempts = 0
          /\ last.active <=> last.response \in {SimulatedResponse, SimulatedHealth}

C9_Witness ==
    /\ skip_validation
    /\ NotifyReturned
    /\ ~last.active
    /\ last.attempts = 1

\* C10: no sendMessage call with an empty text is ever on the wire, from
\* the HTTP handlers or from the one-shot send.
C10_NoEmptyTextOnWire ==
    \A c \in InFlight : c.op = "sendMessage" => c.text # ""

\* the latest handler step was a health check that returned
HealthReturned == last.op = "health"

\* the username of a result payload: present when the payload is an object
\* whose username is a JSON string
PayloadUsername(result) ==
    IF result.t = "obj" /\ result.username.t = "str"
    THEN SomeStr(result.username.s)
    ELSE NoneStr

\* C11: with the toggle inactive, a health check whose get_me succeeds
\* answers 200 healthy, bot_verified, with the username of the payload
\* (absent when it has none); one whose get_me fails (no response,
\* unparsable body, ok == false) answers 503 BOT_VERIFICATION_FAILED.
C11_HealthVerifiedOrUnavailable ==
    (HealthReturned /\ ~last.active) =>
        /\ last.attempts = 1
        /\ (ParsedEnvelope(last.outcome) /\ last.outcome.ok) =>
              /\ last.response.status = 200
              /\ last.response.health = "healthy"
              /\ last.response.bot_verified
              /\ last.response.bot_username = PayloadUsername(last.outcome.result)
        /\ ~(ParsedEnvelope(last.outcome) /\ last.outcome.ok) =>
              /\ last.response.status = 503
              /\ ~last.response.success
              /\ ~last.response.bot_verified
              /\ last.response.health = ""
              /\ last.response.code = SomeStr("BOT_VERIFICATION_FAILED")

C11_Witness ==
    /\ HealthReturned
    /\ ~last.active
    /\ ~last.outcome.completed
    /\ last.response.status = 503

\* C12: with the toggle active, a health check answers 200 healthy with
\* bot_username "test-bot" and bot_verified false, and issues no call.
C12_SimulatedHealth ==
    /\ (HealthReturned /\ last.active) =>
          /\ last.response.status = 200
          /\ last.response.health = "healthy"
          /\ last.response.bot_username = SomeStr("test-bot")
          /\ ~last.response.bot_verified
          /\ last.attempts = 0
          /\ last.outcome = NoOutcome
    /\ \A r \in DOMAIN req : (req[r].pc = "await" /\ req[r].op = "health") => ~req[r].active

C12_Witness ==
    /\ HealthReturned
    /\ last.active
    /\ last.attempts = 0
    /\ last.response.bot_username = SomeStr("test-bot")

\* C13: when get_me is rejected by the provider (ok == false) during a
\* health check, the error of the response contains the provider's
\* description and error code.
C13_HealthErrorPreserved ==
    (HealthReturned /\ ParsedEnvelope(last.outcome) /\ ~last.outcome.ok) =>
        /\ last.response.status = 503
        /\ last.outcome.description.some =>
              Contains(last.response.error, last.outcome.description.v)
        /\ last.outcome.error_code.t = "int" =>
              Contains(last.response.error, FmtInt(last.outcome.error_code.n))

\* C14: a send whose network call does not complete, or whose response
\* body is not the provider envelope, fails with the transport / parse
\* error, and notify answers 502 TELEGRAM_API_ERROR for it after that one
\* attempt, never success.
C14_TransportFailureSurfaced ==
    (NotifyReturned /\ last.attempts > 0 /\ ~ParsedEnvelope(last.outcome)) =>
        /\ ~SendMessageAdvancedResult(last.outcome).is_ok
        /\ last.attempts = 1
        /\ last.response.status = 502
        /\ ~last.response.success
        /\ last.response.code = SomeStr("TELEGRAM_API_ERROR")
        /\ last.response.telegram_message_id = NoneInt
        /\ Contains(last.response.error, "Failed to send notification: ")
        /\ ~Contains(last.response.error, "Telegram API error: ")
        /\ ~last.outcome.completed =>
              Contains(last.response.error, "Failed to send request to Telegram API")
        /\ last.outcome.completed =>
              Contains(last.response.error, "Failed to parse Telegram API response")

C14_Witness ==
    /\ NotifyReturned
    /\ last.attempts = 1
    /\ last.outcome.completed
    /\ ~last.outcome.json
    /\ last.response.status = 502

\* how a result of the provider client classifies an outcome
Classification(result) ==
    IF result.is_ok THEN "ok"
    ELSE IF Contains(result.err, "Telegram API error: ") THEN "provider"
    ELSE IF Contains(result.err, "Failed to parse Telegram API response") THEN "parse"
    ELSE "send"

\* C15: get_me and send_message_advanced classify every provider outcome
\* alike: both succeed with the same envelope or both fail in the same
\* class, with the same description and code in a provider rejection; a
\* handler's answer to an outcome agrees with the other operation's
\* classification of it.
C15_SameClassification ==
    (last.attempts > 0) =>
        LET s == SendMessageAdvancedResult(last.outcome)
            g == GetMeResult(last.outcome)
        IN  /\ s.is_ok = g.is_ok
            /\ s.response = g.response
            /\ Classification(s) = Classification(g)
            /\ Classification(s) = "provider" => s.err = g.err
            /\ HealthReturned => (last.response.status = 200 <=> s.is_ok)
            /\ NotifyReturned => (last.response.status = 200 <=> g.is_ok)

C15_Witness ==
    /\ HealthReturned
    /\ last.attempts = 1
    /\ ParsedEnvelope(last.outcome)
    /\ ~last.outcome.ok
    /\ last.outcome.description.some
    /\ last.response.status = 503

\* C16: /send and /notify behave alike: from every state and for every
\* request, a step is a step of /send exactly when it is a step of
\* /notify, so both give the same response, status and outbound call.
C16_SendIsNotify ==
    [][\A r \in DOMAIN req, request \in Requests \cup ConcRequests :
          Send(r, request) <=> Notify(r, request)]_vars

C16_Witness ==
    \E r \in DOMAIN req :
        /\ req[r].pc = "await"
        /\ req[r].op = "notify"
        /\ req[r].call.op = "sendMessage"
        /\ req[r].request.disable_notification = SomeBool(TRUE)

\* the keys of a serialized payload, and the value under a key
Keys(body) == {body[i].key : i \in DOMAIN body}
Member(body, key) == (CHOOSE i \in DOMAIN body : body[i].key = key)

\* the sendMessage calls on the wire, each with the parse mode supplied for
\* it and its silent flag
SendsInFlight ==
    {[call |-> req[r].call, parse_mode |-> req[r].request.parse_mode,
      silent |-> req[r].request.disable_notification = SomeBool(TRUE)] :
        r \in {x \in DOMAIN req : req[x].pc = "await" /\ req[x].op = "notify"}}
    \cup (IF main_call.call.op = "sendMessage"
          THEN {[call |-> main_call.call, parse_mode |-> SomeStr("Markdown"),
                 silent |-> FALSE]}
          ELSE {})

\* C17: the sendMessage payload always has chat_id and text; it has
\* parse_mode exactly when a parse mode is supplied and
\* disable_notification exactly when the silent flag is true; no key is
\* serialized twice, as null, or as false.
C17_WirePayload ==
    \A s \in SendsInFlight :
        LET body == s.call.body
        IN  /\ {"chat_id", "text"} \subseteq Keys(body)
            /\ Keys(body) \subseteq {"chat_id", "text", "parse_mode", "disable_notification"}
            /\ Cardinality(Keys(body)) = Len(body)
            /\ body[Member(body, "chat_id")].value = JsonString(s.call.chat_id)
            /\ body[Member(body, "text")].value = JsonString(s.call.text)
            /\ "parse_mode" \in Keys(body) <=> s.parse_mode.some
            /\ "parse_mode" \in Keys(body) =>
                  body[Member(body, "parse_mode")].value = JsonString(s.parse_mode.v)
            /\ "disable_notification" \in Keys(body) <=> s.silent
            /\ "disable_notification" \in Keys(body) =>
                  body[Member(body, "disable_notification")].value = JsonBool(TRUE)
            /\ \A i \in DOMAIN body : body[i].value \notin {JsonNull, JsonBool(FALSE)}

C17_Witness ==
    \E s \in SendsInFlight :
        /\ ~s.parse_mode.some
        /\ ~s.silent
        /\ Keys(s.call.body) = {"chat_id", "text"}

\* C18: the one sendMessage call of a notify request carries the
\* request's message, the resolved destination (the request's chat_id
\* when present and non-empty, else the default), the request's
\* parse_mode unchanged and its silent flag with absent read as false.
C18_ForwardedUnchanged ==
    \A r \in DOMAIN req :
        (req[r].pc = "await" /\ req[r].op = "notify") =>
            /\ req[r].attempts = 1
            /\ req[r].call.op = "sendMessage"
            /\ req[r].call.text = req[r].request.message
            /\ req[r].call.parse_mode = req[r].request.parse_mode
            /\ req[r].call.disable_notification =
                  (IF req[r].request.disable_notification = SomeBool(TRUE)
                   THEN SomeBool(TRUE) ELSE NoneBool)
            /\ req[r].call.chat_id =
                  (IF req[r].request.chat_id.some
                   THEN (IF req[r].request.chat_id.v = ""
                         THEN state.default_chat_id ELSE req[r].request.chat_id.v)
                   ELSE state.default_chat_id)

\* C19: the credential is in no HTTP response body and not in the
\* process error output, on the failure paths included.
C19_CredentialNeverWritten ==
    /\ ~Contains(main_err, config.bot_token)
    /\ ~Contains(last.response.error, config.bot_token)
    /\ ~Contains(last.response.message, config.bot_token)

\* the response of a handler invocation that runs alone: from its
\* operation, its message, the toggle at its invocation and the provider's
\* answer to its call
SoloResponse(op, message, active, o) ==
    IF op = "health"
    THEN (IF active THEN SimulatedHealth ELSE HealthResult(GetMeResult(o)))
    ELSE IF message = "" THEN EmptyMessageResponse
    ELSE IF active THEN SimulatedResponse
    ELSE NotifyResponse(SendMessageAdvancedResult(o))

\* the call of a handler invocation that runs alone
SoloCall(op, request) ==
    IF op = "health"
    THEN GetMeCall(ApiUrl(config.bot_token))
    ELSE SendMessageAdvancedCall(
             ApiUrl(config.bot_token),
             IF request.chat_id.some THEN request.chat_id.v ELSE config.chat_id,
             request.message, request.parse_mode,
             request.disable_notification = SomeBool(TRUE))

\* C20: while the server runs, the api url and the default chat id are
\* never modified, and in every interleaving of notify/send/health
\* invocations each invocation issues the call and returns the response
\* it would alone with its request, its toggle value and its provider
\* answer, leaving the other invocations as they are.
C20_Isolation ==
    [][/\ config' = config /\ bot' = bot /\ state' = state
       /\ state = [bot |-> ApiUrl(config.bot_token), default_chat_id |-> config.chat_id]
       /\ \A r \in DOMAIN req :
             /\ (req[r].pc = "idle" /\ req'[r].pc = "await") =>
                   /\ req'[r].call = SoloCall(req'[r].op, req'[r].request)
                   /\ req'[r].active = SkipValidation(env)
                   /\ \A x \in DOMAIN req \ {r} : req'[x] = req[x]
             /\ (req[r].pc = "await" /\ req'[r].pc = "idle") =>
                   /\ last'.op = req[r].op
                   /\ last'.response =
                         SoloResponse(req[r].op, req[r].request.message,
                                      req[r].active, last'.outcome)
                   /\ \A x \in DOMAIN req \ {r} : req'[x] = req[x]
       /\ (req' = req /\ env' = env /\ last'.op \in {"notify", "health"}) =>
             /\ last'.attempts = 0
             /\ last'.active = SkipValidation(env)
             /\ last'.response =
                   SoloResponse(last'.op, last'.message, last'.active, NoOutcome)
      ]_vars

C20_Witness ==
    \E r \in DOMAIN req :
        /\ req[r].pc = "await"
        /\ last.attempts = 1
        /\ last.op # req[r].op
        /\ last.response.status \in {200, 502, 503}

\* C21: while the invocation in the first slot is suspended on a provider
\* call that may never return, every other suspended invocation whose own
\* call returns runs to completion, and a free slot still takes a health
\* check.
C21_OthersProceed ==
    /\ \A r \in Answered :
          (req[1].pc = "await" /\ req[r].pc = "await") ~> (req[r].pc = "idle")
    /\ [](\A r \in Answered :
            (req[1].pc = "await" /\ FreeSlot(r)) => ENABLED Health(r))

C21_Witness ==
    /\ req[1].pc = "await"
    /\ \E r \in Answered : req[r].pc = "await" /\ req[r].op = "health"

\* the latest handler step was the Json extractor rejecting a body
Rejected == last.op = "rejection"

\* C22: a body without message is answered 422 by the extractor, with no
\* outbound call and without the handler; a body with an empty message
\* is answered 400 by the handler's validation; a 422 never comes from
\* validation and a 400 never from the extractor, and every request a
\* handler holds deserialized from a body with a message.
C22_RejectionIsNotValidation ==
    /\ Rejected =>
          /\ last.response.status = 422
          /\ last.response.code = NoneStr
          /\ last.attempts = 0
          /\ last.outcome = NoOutcome
    /\ (NotifyReturned /\ last.message = "") => last.response.status = 400
    /\ last.response.status = 422 => Rejected
    /\ last.response.status = 400 => (NotifyReturned /\ last.message = "")
    /\ \A r \in DOMAIN req :
          req[r].op = "notify" =>
              \E body \in Bodies :
                  /\ body.message.some
                  /\ Deserialize(body) = SomeRequest(req[r].request)

C22_Witness ==
    /\ Rejected
    /\ last.response.status = 422
    /\ last.attempts = 0

\* the value from_args_and_env must resolve for a flag and its variable
Resolved(flag, var) ==
    IF flag.some THEN flag.v ELSE IF var.some THEN var.v ELSE ""

\* the launch gives a non-empty credential and a non-empty destination
Resolvable ==
    /\ Resolved(launch.bot_token, launch.env_bot_token) # ""
    /\ Resolved(launch.chat_id, launch.env_chat_id) # ""

\* C23: once main has its configuration, credential and destination are
\* non-empty, each from its flag when given and else from its variable;
\* when one is missing from both or empty, main returns the error and
\* constructs no bot, issues no call and starts no server.
C23_ConfigResolution ==
    /\ pc \notin {"config", "exit_err"} => Resolvable
    /\ pc # "config" /\ Resolvable =>
          /\ config.bot_token = Resolved(launch.bot_token, launch.env_bot_token)
          /\ config.chat_id = Resolved(launch.chat_id, launch.env_chat_id)
          /\ config.bot_token # ""
          /\ config.chat_id # ""
    /\ pc # "config" /\ ~Resolvable =>
          /\ pc = "exit_err"
          /\ config = NoConfig
          /\ bot = <<>>
          /\ state = NoState
          /\ main_call = NoMainCall
          /\ (Contains(main_err, "Bot token is required")
                \/ Contains(main_err, "Chat ID is required")
                \/ Contains(main_err, "Bot token cannot be empty")
                \/ Contains(main_err, "Chat ID cannot be empty"))
    /\ bot # <<>> => (Resolvable /\ bot = ApiUrl(config.bot_token))
    /\ InFlight # {} => Resolvable

C23_Witness ==
    /\ pc = "exit_err"
    /\ launch.bot_token = SomeStr("")
    /\ launch.env_bot_token = SomeStr("tok2")
    /\ Contains(main_err, "Bot token cannot be empty")

\* the numbers the values of PORT stand for as 16-bit unsigned integers
PortNumber(chars) ==
    CASE chars = <<"8", "0", "8", "0">> -> SomeInt(8080)
      [] chars = <<"0", "8", "0">> -> SomeInt(80)
      [] chars = <<"+", "8", "0">> -> SomeInt(80)
      [] chars = <<"6", "5", "5", "3", "5">> -> SomeInt(65535)
      [] OTHER -> NoneInt

\* C26: the resolved port is the value of PORT when PORT is set and
\* parses as a 16-bit unsigned integer, and the --port value (or its
\* default) when PORT is unset or does not parse.
C26_PortResolution ==
    (pc # "config" /\ config # NoConfig) =>
        /\ config.port \in 0..U16_MAX
        /\ (launch.env_port.some /\ PortNumber(launch.env_port.v).some) =>
              config.port = PortNumber(launch.env_port.v).v
        /\ ~(launch.env_port.some /\ PortNumber(launch.env_port.v).some) =>
              config.port = launch.port

C26_Witness ==
    /\ pc = "serve"
    /\ launch.port = 3000
    /\ launch.env_port = EnvSet(<<"6", "5", "5", "3", "5">>)
    /\ config.port = 65535

\* C24: with the toggle inactive at startup, main issues one getMe call
\* before it serves or sends: it enters the verification only from its
\* start, reaches the server or the one-shot send only through an
\* answered verification (or directly when the toggle is active), and a
\* failed verification ends main with the error, no listener bound and no
\* sendMessage issued; no handler runs before the server is up.
C24_VerifyBeforeServe ==
    /\ [](/\ pc = "verify" =>
                /\ main_call.call.op = "getMe"
                /\ ~skip_validation
                /\ state = NoState
          /\ pc \in {"serve", "cli"} /\ state # NoState => pc = "serve"
          /\ pc # "serve" => (last = NoLast /\ \A r \in DOMAIN req : req[r].pc = "idle"))
    /\ [][pc' # pc =>
            /\ pc = "start" => (pc' = "verify" <=> ~SkipValidation(env))
            /\ pc' = "verify" => pc = "start"
            /\ pc' \in {"serve", "cli"} =>
                  \/ pc = "verify"
                  \/ pc = "start" /\ SkipValidation(env)
            /\ pc = "verify" =>
                  \A o \in Outcomes, bound \in BOOLEAN :
                      (VerifyReply(o, bound) /\ ~(ParsedEnvelope(o) /\ o.ok)) =>
                          /\ pc' = "exit_err"
                          /\ main_err' # <<>>
                          /\ ~Contains(main_err', "bind")
                          /\ state' = NoState
                          /\ main_call' = NoMainCall]_vars

C24_Witness ==
    /\ pc = "exit_err"
    /\ ~skip_validation
    /\ state = NoState
    /\ Contains(main_err, "Telegram API error: ")

\* C25: the one-shot mode issues one sendMessage call, to the configured
\* chat id with the configured message, parse_mode "Markdown" and no
\* disable_notification; main ends with success exactly when the call
\* succeeds and returns the error of a failed call without another call.
C25_OneShotSend ==
    /\ [](/\ pc = "cli" =>
                /\ ~config.server
                /\ main_call.call.op = "sendMessage"
                /\ main_call.call.url = <<TELEGRAM_API_BASE, config.bot_token, "/sendMessage">>
                /\ main_call.call.chat_id = config.chat_id
                /\ main_call.call.text = config.message
                /\ main_call.call.parse_mode = SomeStr("Markdown")
                /\ main_call.call.disable_notification = NoneBool
                /\ Keys(main_call.call.body) = {"chat_id", "text", "parse_mode"}
          /\ pc \in {"exit_ok", "exit_err"} => main_call = NoMainCall
          /\ main_call.call.op = "sendMessage" => pc = "cli")
    /\ [][/\ (pc' = "cli" /\ pc # "cli") => pc \in {"start", "verify"}
          /\ pc = "cli" =>
                \A o \in Outcomes :
                    CliReply(o) =>
                        /\ pc' = (IF ParsedEnvelope(o) /\ o.ok THEN "exit_ok" ELSE "exit_err")
                        /\ pc' = "exit_ok" => main_err' = <<>>
                        /\ pc' = "exit_err" =>
                              \A i \in DOMAIN SendMessageAdvancedResult(o).err :
                                  Contains(main_err', SendMessageAdvancedResult(o).err[i])
                        /\ main_call' = NoMainCall]_vars

C25_Witness ==
    /\ pc = "exit_err"
    /\ ~config.server
    /\ Contains(main_err, "Failed to parse Telegram API response")

\* C27: the parse_mode of every sendMessage payload on the wire is
\* absent, "Markdown" or "HTML".
C27_FormatHintIsEnum ==
    \A s \in SendsInFlight :
        \A i \in DOMAIN s.call.body :
            s.call.body[i].key = "parse_mode" =>
                s.call.body[i].value \in {JsonString("Markdown"), JsonString("HTML")}

\* the payload types that have a success field
HasSuccess(response) == response.payload \in {"SendNotificationResponse", "ErrorResponse"}

\* C28: every response of notify/send and health is a success payload
\* with status 200, or an error payload with success == false and a code
\* with status 400 / EMPTY_MESSAGE, 502 / TELEGRAM_API_ERROR or
\* 503 / BOT_VERIFICATION_FAILED; success == true never comes with an
\* error status, success == false never with 200.
C28_StatusMatchesPayload ==
    (last.op \in {"notify", "health"}) =>
        /\ last.response.status \in {200, 400, 502, 503}
        /\ last.response.status = 200 =>
              /\ last.response.payload =
                    (IF last.op = "notify" THEN "SendNotificationResponse" ELSE "HealthResponse")
              /\ last.op = "notify" => last.response.success
              /\ last.op = "health" => last.response.health = "healthy"
              /\ last.response.code = NoneStr
              /\ last.response.error = <<>>
        /\ last.response.status # 200 =>
              /\ last.response.payload = "ErrorResponse"
              /\ ~last.response.success
              /\ last.response.error # <<>>
              /\ last.response.message = <<>>
              /\ last.response.telegram_message_id = NoneInt
              /\ last.response.code =
                    (CASE last.response.status = 400 -> SomeStr("EMPTY_MESSAGE")
                       [] last.response.status = 502 -> SomeStr("TELEGRAM_API_ERROR")
                       [] last.response.status = 503 -> SomeStr("BOT_VERIFICATION_FAILED"))
              /\ last.response.status \in {400, 502} <=> last.op = "notify"
        /\ HasSuccess(last.response) =>
              (last.response.success <=> last.response.status = 200)

C28_Witness ==
    /\ last.op = "health"
    /\ last.response.status = 503
    /\ last.response.code = SomeStr("BOT_VERIFICATION_FAILED")

\* HTTP statuses a provider response may carry
ProviderStatuses == {200, 400, 401, 404, 500}

\* the provider's answer with another HTTP status
WithStatus(o, status) == [o EXCEPT !.status = status]

\* C29: the result of a provider call does not depend on the HTTP status
\* of the response: a body that parses as an envelope with ok == true is
\* a success and one with ok == false a provider error whatever the
\* status, and a completed call fails with the parse error only when its
\* body is not an envelope.
C29_StatusIgnored ==
    (last.attempts > 0 /\ last.outcome.completed) =>
        LET o == last.outcome
            failed == last.response.status # 200
        IN  /\ \A status \in ProviderStatuses :
                  /\ SendMessageAdvancedResult(WithStatus(o, status)) =
                        SendMessageAdvancedResult(o)
                  /\ GetMeResult(WithStatus(o, status)) = GetMeResult(o)
            /\ (ParsedEnvelope(o) /\ o.ok) => ~failed
            /\ (ParsedEnvelope(o) /\ ~o.ok) => failed
            /\ (NotifyReturned /\ ParsedEnvelope(o) /\ ~o.ok) =>
                  Contains(last.response.error, "Telegram API error: ")
            /\ (NotifyReturned /\ failed) =>
                  (Contains(last.response.error, "Failed to parse Telegram API response")
                      <=> ~ParsedEnvelope(o))
            /\ NotifyReturned =>
                  ~Contains(last.response.error, "Failed to send request to Telegram API")

C29_Witness ==
    /\ NotifyReturned
    /\ last.attempts = 1
    /\ last.outcome.status = 500
    /\ ParsedEnvelope(last.outcome)
    /\ last.outcome.ok
    /\ last.response.status = 200

\* the variable is set to the four letters of "true", each in either case
IsTrueIgnoringCase(e) ==
    /\ e.some
    /\ Len(e.v) = 4
    /\ e.v[1] \in {"t", "T"}
    /\ e.v[2] \in {"r", "R"}
    /\ e.v[3] \in {"u", "U"}
    /\ e.v[4] \in {"e", "E"}

\* C30: simulate mode is active exactly when the variable equals "true"
\* without regard to case (inactive when unset, empty or anything else),
\* and main at its start, health and notify all decide by that: main
\* verifies exactly when it is inactive, a handler calls the provider
\* only when it is inactive, and a health check or a non-empty
\* notification returns without a call only when it is active.
C30_TogglePredicate ==
    [][/\ (pc = "start" /\ pc' # "start") =>
             /\ skip_validation' = IsTrueIgnoringCase(env)
             /\ pc' = "verify" <=> ~IsTrueIgnoringCase(env)
       /\ \A r \in DOMAIN req :
             (req[r].pc = "idle" /\ req'[r].pc = "await") =>
                 /\ ~IsTrueIgnoringCase(env)
                 /\ ~req'[r].active
       /\ (req' = req /\ env' = env /\ last' # last /\ last'.op \in {"notify", "health"}) =>
             /\ last'.active = IsTrueIgnoringCase(env)
             /\ (last'.op = "health" \/ last'.message # "") => IsTrueIgnoringCase(env)
      ]_vars

C30_Witness ==
    /\ env = EnvSet(<<"T", "r", "U", "E">>)
    /\ last.op = "health"
    /\ last.active
    /\ last.attempts = 0
    /\ skip_validation

====
